---- MODULE Spec2Model ----
(***************************************************************************)
(* hugo-site-manager: the site store and the theme store of main.go.       *)
(*                                                                         *)
(* The state is the part of the filesystem the stores work on (the theme   *)
(* root, the site root, the process's working directory), the two          *)
(* in-memory mappings, the handle the caller holds and a record of the     *)
(* last operation with the external commands it ran.  A path is the        *)
(* sequence of its components; the empty string of a path field is <<>>.   *)
(***************************************************************************)
EXTENDS Integers, Sequences, FiniteSets, TLC

\* ------------------------------------------------------------------ bounds

\* Operations (calls and out-of-band changes) of one run after the stores
\* are initialized.
MaxOps == 3

\* ------------------------------------------------------------ input sets

IDs == {"acme", "myorgid"}

ThemeNames == {"ananke", "hyde"}

\* The empty ThemeURL and a repository URL.
ThemeURLs == {"", "https://example/theme.git"}

\* What a caller (or an out-of-band edit) may put in a directory field.
ForeignDir == <<"srv", "elsewhere">>

\* What a caller supplies besides ID and ThemeURL: a theme with the site
\* metadata, and a value in the directory fields (empty, or a path of its
\* own).
Metas ==
  { [Theme |-> "ananke", BaseURL |-> "http://localhost", LanguageCode |-> "en-us",
     Title |-> "Test Site", Dirs |-> <<>>],
    [Theme |-> "hyde", BaseURL |-> "http://acme.test", LanguageCode |-> "de",
     Title |-> "Acme", Dirs |-> ForeignDir] }

\* Where the process may have been started: the site root, or another place.
OtherWorkDir == <<"home", "user">>

\* ------------------------------------------------------------- constants

defaultSiteStorePath == <<"tmp", "sites">>

defaultThemeStorePath == <<"tmp", "themes">>

\* filepath.Join of a path and one component.
Join(p, c) == Append(p, c)

\* p lies strictly below root.
IsUnder(root, p) == Len(p) > Len(root) /\ SubSeq(p, 1, Len(root)) = root

\* fmt.Sprintf("%s.toml", id)
configFilename(id) ==
  CASE id = "acme" -> "acme.toml"
    [] id = "myorgid" -> "myorgid.toml"

\* ------------------------------------------------------------ SiteConfig

SiteConfig(id, url, sitePath, themesDir, contentDir, layoutDir, publishDir, meta, theme) ==
  [ID |-> id, ThemeURL |-> url, SitePath |-> sitePath,
   ThemesDir |-> themesDir, ContentDir |-> contentDir,
   LayoutDir |-> layoutDir, PublishDir |-> publishDir,
   BaseURL |-> meta.BaseURL, LanguageCode |-> meta.LanguageCode,
   Title |-> meta.Title, Theme |-> theme]

\* The configs a caller hands to Create.
CallerConfigs ==
  { SiteConfig(i, u, m.Dirs, m.Dirs, m.Dirs, m.Dirs, m.Dirs, m, m.Theme) :
      i \in IDs, u \in ThemeURLs, m \in Metas }

\* An encoding that writes ID and ThemeURL as well.
EncodeWithIdentity(c) ==
  [id |-> c.ID, themeURL |-> c.ThemeURL,
   themesDir |-> c.ThemesDir, contentDir |-> c.ContentDir,
   layoutDir |-> c.LayoutDir, publishDir |-> c.PublishDir,
   baseURL |-> c.BaseURL, languageCode |-> c.LanguageCode,
   title |-> c.Title, theme |-> c.Theme]

\* toml.Encoder.Encode: the document holds the keys of the tagged fields;
\* the fields tagged "-" (ID, ThemeURL, SitePath) are not written.
Encode(c) ==
  [themesDir |-> c.ThemesDir, contentDir |-> c.ContentDir,
   layoutDir |-> c.LayoutDir, publishDir |-> c.PublishDir,
   baseURL |-> c.BaseURL, languageCode |-> c.LanguageCode,
   title |-> c.Title, theme |-> c.Theme]

\* toml.DecodeFile into a zero SiteConfig: the tagged fields are read, the
\* fields tagged "-" keep their zero value.
Decode(doc) ==
  [ID |-> "", ThemeURL |-> "", SitePath |-> <<>>,
   ThemesDir |-> doc.themesDir, ContentDir |-> doc.contentDir,
   LayoutDir |-> doc.layoutDir, PublishDir |-> doc.publishDir,
   BaseURL |-> doc.baseURL, LanguageCode |-> doc.languageCode,
   Title |-> doc.title, Theme |-> doc.theme]

\* A file: absent, a TOML document, or bytes toml cannot decode.
NoFile == [kind |-> "none"]

TomlFile(doc) == [kind |-> "toml", doc |-> doc]

BadFile == [kind |-> "garbage"]

\* A *Site: nil, or a Site with its Config.
NilSite == [present |-> FALSE]

SiteOf(c) == [present |-> TRUE, Config |-> c]

\* ----------------------------------------------------------------- state

VARIABLES
  pc,          \* "boot", "themes" (theme store built), "ready" (both built);
               \* in main: "found" (after Find), "done", "panic"
  workDir,     \* the process's working directory
  themeRoot,   \* the theme root exists
  themeFS,     \* entry of each name under the theme root: "none", "dir", "file"
  Themes,      \* ThemeStore.Themes: the key set of the mapping
  siteRoot,    \* the site root exists
  siteDir,     \* the directory SitePath/id exists
  siteCfg,     \* the file SitePath/id/config.toml
  staging,     \* the file SitePath/id.toml
  Sites,       \* SiteStore.Sites: the key set of the mapping
  handle,      \* what the caller holds from its last Create or Find
  last,        \* the last operation: its arguments, results and commands
  cloned,      \* per theme: the ID whose Create fetched it ("": none, or
               \* removed out-of-band since)
  ops,         \* operations performed since the stores were built
  procs        \* per goroutine of a concurrent caller: the Create it is in
               \* and how far it got (<<>>: the caller is sequential)

vars ==
  <<pc, workDir, themeRoot, themeFS, Themes, siteRoot, siteDir, siteCfg,
    staging, Sites, handle, last, cloned, ops, procs>>

\* The filesystem under the two roots and the two mappings.
stores ==
  <<themeRoot, themeFS, Themes, siteRoot, siteDir, siteCfg, staging, Sites>>

NoHandle == [site |-> NilSite, from |-> "none", id |-> ""]

NoOp == [op |-> "none"]

\* ThemeStore.StorePath and SiteStore.SitePath
StorePath == defaultThemeStorePath

SitePath == defaultSiteStorePath

Init ==
  /\ pc = "boot"
  /\ workDir \in {defaultSiteStorePath, OtherWorkDir}
  /\ themeRoot \in BOOLEAN
  /\ themeFS \in [ThemeNames -> {"none", "dir", "file"}]
  /\ themeRoot = FALSE => themeFS = [t \in ThemeNames |-> "none"]
  /\ Themes = {}
  /\ siteRoot \in BOOLEAN
  /\ siteDir = [i \in IDs |-> FALSE]
  /\ siteCfg = [i \in IDs |-> NoFile]
  /\ staging = [i \in IDs |-> NoFile]
  /\ Sites = {}
  /\ handle = NoHandle
  /\ last = NoOp
  /\ cloned = [t \in ThemeNames |-> ""]
  /\ ops = 0
  /\ procs = <<>>

\* ioutil.ReadDir of a path succeeds when the path is a directory.
ReadDirOk(kind) == kind = "dir"

\* ------------------------------------------------------------ ThemeStore

\* NewThemeStore: read the root; create it when it cannot be read; register
\* one Theme per entry ioutil.ReadDir returned.
NewThemeStore ==
  /\ pc = "boot"
  /\ pc' = "themes"
  /\ themeRoot' = TRUE
  /\ Themes' = IF themeRoot THEN {t \in ThemeNames : themeFS[t] # "none"} ELSE {}
  /\ last' = [op |-> "NewThemeStore", calls |-> <<>>]
  /\ UNCHANGED <<procs, workDir, themeFS, siteRoot, siteDir, siteCfg, staging,
                 Sites, handle, cloned, ops>>

\* ThemeStore.Find looking the name up in the Themes mapping.
ThemeStoreFindInMapping(name) == name \in Themes

\* ThemeStore.Find: present when ioutil.ReadDir of StorePath/name succeeds.
ThemeStoreFind(name) == ReadDirOk(themeFS[name])

\* The git clone ThemeStore.Fetch runs.
FetchCall(name, url) ==
  [tool |-> "git", args |-> <<"clone", url, Join(StorePath, name)>>, dir |-> workDir]

\* The theme root after a Fetch that creates the destination directory
\* itself before it runs the clone.
FetchedFSWithDirectory(name, ok) == [themeFS EXCEPT ![name] = "dir"]

\* The theme root after ThemeStore.Fetch: a clone that succeeded left the
\* directory StorePath/name, one that failed left the root as it was.
FetchedFS(name, ok) == IF ok THEN [themeFS EXCEPT ![name] = "dir"] ELSE themeFS

\* A caller asks ThemeStore.Find for a theme.
ThemeFind(name) ==
  /\ pc = "ready"
  /\ ops < MaxOps
  /\ ops' = ops + 1
  /\ last' = [op |-> "ThemeFind", name |-> name, present |-> ThemeStoreFind(name),
              calls |-> <<>>]
  /\ UNCHANGED <<procs, pc, workDir, themeRoot, themeFS, Themes, siteRoot, siteDir,
                 siteCfg, staging, Sites, handle, cloned>>

\* ------------------------------------------------------------- SiteStore

\* NewSiteStore: an empty mapping; the root is created when it cannot be read.
NewSiteStore ==
  /\ pc = "themes"
  /\ pc' = "ready"
  /\ siteRoot' = TRUE
  /\ Sites' = {}
  /\ last' = [op |-> "NewSiteStore", calls |-> <<>>]
  /\ UNCHANGED <<procs, workDir, themeRoot, themeFS, Themes, siteDir, siteCfg,
                 staging, handle, cloned, ops>>

\* Layout computation that fills a directory field only when the caller left
\* it empty.
LayoutKeepingCaller(config) ==
  LET sitePath == Join(SitePath, config.ID)
      keep(given, computed) == IF given = <<>> THEN computed ELSE given
  IN  [config EXCEPT !.ThemesDir = keep(@, StorePath),
                     !.ContentDir = keep(@, Join(sitePath, "content")),
                     !.LayoutDir = keep(@, Join(sitePath, "layout")),
                     !.PublishDir = keep(@, Join(sitePath, "public")),
                     !.SitePath = sitePath]

\* Layout computation of Create: the derived fields overwrite the caller's.
Layout(config) ==
  LET sitePath == Join(SitePath, config.ID)
  IN  [config EXCEPT !.ThemesDir = StorePath,
                     !.ContentDir = Join(sitePath, "content"),
                     !.LayoutDir = Join(sitePath, "layout"),
                     !.PublishDir = Join(sitePath, "public"),
                     !.SitePath = sitePath]

\* configPath of Create: the staging file SitePath/<id>.toml
ConfigPath(id) == Join(SitePath, configFilename(id))

\* newConfigPath of Create: SitePath/<id>/config.toml
NewConfigPath(id) == Join(Join(SitePath, id), "config.toml")

\* The directory the scaffold command runs in: Create sets no cmd.Dir, so
\* the command inherits the process's working directory.
ScaffoldDir == workDir

\* The hugo command Create runs to scaffold the site.
ScaffoldCall(id) ==
  [tool |-> "hugo", args |-> <<"new", "--config", ConfigPath(id), id>>,
   dir |-> ScaffoldDir]

\* The value of err Create returns when the theme is missing and no
\* ThemeURL is given: the named result err, not assigned so far (nil).
NoThemeURLErr == FALSE

\* Theme resolution of Create passing over the error of Fetch.
ResolvedIgnoringFetchErr(found, url, fetchOk) == found \/ url # ""

\* Theme resolution of Create: the theme is found, or a ThemeURL is given
\* and Fetch returns no error.
Resolved(found, url, fetchOk) == found \/ (url # "" /\ fetchOk)

\* os.Rename(configPath, newConfigPath) succeeds when the staging file and
\* the directory SitePath/id exist.
RenameOk(stagingFile, dirExists) == stagingFile.kind # "none" /\ dirExists

\* Whether Create returns a Site once the scaffold command has succeeded:
\* the result of os.Rename is dropped.
ReturnsSite(scaffolded, renamed) == scaffolded

\* How the external steps of one Create end: git clone, ioutil.WriteFile or
\* hugo new fails (if the call reaches it), or hugo new exits 0.  A hugo run
\* in the site root leaves the site directory SitePath/id; run in another
\* directory it may leave it (it honours the paths of the config it was
\* given) or not (it resolves the ID against its working directory).
Outcomes == {"fetchFails", "writeFails", "scaffoldFails", "scaffolded", "scaffoldedInWorkDir"}

\* SiteStore.Create
Create(config, outcome) ==
  LET id == config.ID
      fetchOk == outcome # "fetchFails"
      writeOk == outcome # "writeFails"
      scaffoldOk == outcome # "scaffoldFails"
      found == ThemeStoreFind(config.Theme)
      noURL == ~found /\ config.ThemeURL = ""
      fetchRun == ~found /\ config.ThemeURL # ""
      resolved == Resolved(found, config.ThemeURL, fetchOk)
      cfg == Layout(config)
      written == resolved /\ siteRoot /\ writeOk
      scaffolded == written /\ scaffoldOk
      made == scaffolded /\ (ScaffoldDir = SitePath \/ outcome = "scaffolded")
      dirAfter == siteDir[id] \/ made
      stagedFile == IF written THEN TomlFile(Encode(cfg)) ELSE staging[id]
      renamed == scaffolded /\ RenameOk(stagedFile, dirAfter)
      ok == ReturnsSite(scaffolded, renamed)
      err == \/ noURL /\ NoThemeURLErr
             \/ fetchRun /\ ~fetchOk
             \/ resolved /\ ~written
             \/ written /\ ~scaffoldOk
             \/ scaffolded /\ ~ok
      result == IF ok THEN SiteOf(cfg) ELSE NilSite
  IN  /\ pc = "ready"
      /\ ops < MaxOps
      /\ outcome = "scaffoldedInWorkDir" => ScaffoldDir # SitePath
      /\ ops' = ops + 1
      /\ themeFS' = IF fetchRun THEN FetchedFS(config.Theme, fetchOk) ELSE themeFS
      /\ cloned' = IF fetchRun /\ fetchOk
                      THEN [cloned EXCEPT ![config.Theme] = id] ELSE cloned
      /\ staging' = [staging EXCEPT ![id] = IF renamed THEN NoFile ELSE stagedFile]
      /\ siteDir' = [siteDir EXCEPT ![id] = dirAfter]
      /\ siteCfg' = [siteCfg EXCEPT ![id] = IF renamed THEN stagedFile ELSE @]
      /\ handle' = [site |-> result, from |-> "Create", id |-> id]
      /\ last' = [op |-> "Create", id |-> id, input |-> config,
                  site |-> result, err |-> err,
                  found |-> found, fetchRun |-> fetchRun,
                  fetched |-> fetchRun /\ fetchOk,
                  written |-> written, scaffolded |-> scaffolded,
                  renamed |-> renamed,
                  calls |-> (IF fetchRun
                               THEN <<FetchCall(config.Theme, config.ThemeURL)>>
                               ELSE <<>>)
                            \o (IF written THEN <<ScaffoldCall(id)>> ELSE <<>>)]
      /\ UNCHANGED <<procs, pc, workDir, themeRoot, Themes, siteRoot, Sites>>

\* What SiteStore.Find keeps of the decoded config: the decoded fields,
\* with SitePath set to the directory found.
Reconstruct(doc, sitePath) == [Decode(doc) EXCEPT !.SitePath = sitePath]

\* SiteStore.Find passing over the error of toml.DecodeFile: the config is
\* what was decoded, or the zero config.
FindResultIgnoringDecodeErr(id) ==
  IF ~ReadDirOk(IF siteRoot /\ siteDir[id] THEN "dir" ELSE "none") THEN NilSite
  ELSE IF siteCfg[id].kind # "toml"
         THEN SiteOf(SiteConfig("", "", Join(SitePath, id), <<>>, <<>>, <<>>, <<>>,
                                [BaseURL |-> "", LanguageCode |-> "", Title |-> ""], ""))
  ELSE SiteOf(Reconstruct(siteCfg[id].doc, Join(SitePath, id)))

\* The *Site SiteStore.Find returns.
FindResult(id) ==
  IF ~ReadDirOk(IF siteRoot /\ siteDir[id] THEN "dir" ELSE "none") THEN NilSite
  ELSE IF siteCfg[id].kind # "toml" THEN NilSite
  ELSE SiteOf(Reconstruct(siteCfg[id].doc, Join(SitePath, id)))

\* SiteStore.Find
Find(id) ==
  /\ pc = "ready"
  /\ ops < MaxOps
  /\ ops' = ops + 1
  /\ handle' = [site |-> FindResult(id), from |-> "Find", id |-> id]
  /\ last' = [op |-> "Find", id |-> id, site |-> FindResult(id), err |-> FALSE,
              calls |-> <<>>,
              after |-> IF last.op = "Create" THEN last ELSE NoOp]
  /\ UNCHANGED <<procs, pc, workDir, themeRoot, themeFS, Themes, siteRoot, siteDir,
                 siteCfg, staging, Sites, cloned>>

\* ------------------------------------------------------------------ Site

\* Site.Build run in the process's working directory (no cmd.Dir).
BuildCallInWorkDir(s) == [tool |-> "hugo", args |-> <<>>, dir |-> workDir]

\* The hugo command Site.Build runs: no arguments, cmd.Dir = Config.SitePath.
BuildCall(s) == [tool |-> "hugo", args |-> <<>>, dir |-> s.Config.SitePath]

\* The error Site.Build returns: that of cmd.Run.
BuildErr(engineOk) == ~engineOk

\* Site.Build on the Site the caller holds; engineOk is the outcome of hugo.
Build(engineOk) ==
  /\ pc = "ready"
  /\ ops < MaxOps
  /\ handle.site.present
  /\ ops' = ops + 1
  /\ last' = [op |-> "Build", id |-> handle.id, from |-> handle.from,
              err |-> BuildErr(engineOk), engineOk |-> engineOk,
              calls |-> <<BuildCall(handle.site)>>]
  /\ UNCHANGED <<procs, pc, workDir, themeRoot, themeFS, Themes, siteRoot, siteDir,
                 siteCfg, staging, Sites, handle, cloned>>

\* ----------------------------------------------------- out-of-band changes

\* A config file after an out-of-band change: removed, damaged, or its
\* directory keys rewritten.
Edited(file, how) ==
  CASE how = "remove" -> NoFile
    [] how = "damage" -> BadFile
    [] how = "rewrite" -> TomlFile([file.doc EXCEPT !.themesDir = ForeignDir,
                                                    !.contentDir = ForeignDir,
                                                    !.layoutDir = ForeignDir,
                                                    !.publishDir = ForeignDir])

\* Another program rewrites, damages or removes a site's config file.
ExternalEdit(id, how) ==
  /\ pc = "ready"
  /\ ops < MaxOps
  /\ siteCfg[id].kind = "toml"
  /\ siteCfg' = [siteCfg EXCEPT ![id] = Edited(@, how)]
  /\ ops' = ops + 1
  /\ last' = [op |-> "External", calls |-> <<>>]
  /\ UNCHANGED <<procs, pc, workDir, themeRoot, themeFS, Themes, siteRoot, siteDir,
                 staging, Sites, handle, cloned>>

\* Another program removes a theme directory.
ExternalRemoveTheme(name) ==
  /\ pc = "ready"
  /\ ops < MaxOps
  /\ themeFS[name] = "dir"
  /\ themeFS' = [themeFS EXCEPT ![name] = "none"]
  /\ cloned' = [cloned EXCEPT ![name] = ""]
  /\ ops' = ops + 1
  /\ last' = [op |-> "External", calls |-> <<>>]
  /\ UNCHANGED <<procs, pc, workDir, themeRoot, Themes, siteRoot, siteDir, siteCfg,
                 staging, Sites, handle>>

\* ------------------------------------------------------------ specification

Next ==
  \/ NewThemeStore
  \/ NewSiteStore
  \/ \E c \in CallerConfigs, outcome \in Outcomes : Create(c, outcome)
  \/ \E i \in IDs : Find(i)
  \/ \E t \in ThemeNames : ThemeFind(t)
  \/ \E e \in BOOLEAN : Build(e)
  \/ \E i \in IDs, how \in {"remove", "damage", "rewrite"} : ExternalEdit(i, how)
  \/ \E t \in ThemeNames : ExternalRemoveTheme(t)

Spec == Init /\ [][Next]_vars

\* ------------------------------------------------------------------ claims

\* A step that is a call of the named operation.
IsCall(op) == ops' = ops + 1 /\ last'.op = op

\* The last operation was a Find that came right after a Create of the same
\* ID that returned a Site and no error.
FoundRightAfterCreate ==
  /\ last.op = "Find"
  /\ last.after.op = "Create"
  /\ last.after.id = last.id
  /\ last.after.site.present
  /\ ~last.after.err

\* C1: a Create that returns success, followed at once by Find with the same
\* ID, yields a present site whose base URL, language code, title and theme
\* are those of the input config and whose directory fields are non-empty,
\* with content, layout and publish directories under the site-store root.
C1_CreateThenFind ==
  FoundRightAfterCreate =>
    /\ last.site.present
    /\ LET c == last.site.Config
           in == last.after.input
       IN  /\ c.BaseURL = in.BaseURL
           /\ c.LanguageCode = in.LanguageCode
           /\ c.Title = in.Title
           /\ c.Theme = in.Theme
           /\ c.ThemesDir # <<>>
           /\ IsUnder(SitePath, c.ContentDir)
           /\ IsUnder(SitePath, c.LayoutDir)
           /\ IsUnder(SitePath, c.PublishDir)

\* The last operation was a Create naming a theme with no directory under
\* the theme root.
CreatedWithMissingTheme == last.op = "Create" /\ ~last.found

\* C2: Create with a theme that has no directory and an empty ThemeURL
\* returns a non-nil error and no Site, and leaves no site directory and no
\* staging file for the ID.
C2_NoThemeNoURLFails ==
  (CreatedWithMissingTheme /\ last.input.ThemeURL = "") =>
    /\ last.err
    /\ ~last.site.present
    /\ ~siteDir[last.id]
    /\ staging[last.id] = NoFile

\* C3 as stated: Create with a theme that has no directory and a non-empty
\* ThemeURL returns success if and only if the fetch succeeds.
C3_SuccessIffFetch ==
  (CreatedWithMissingTheme /\ last.input.ThemeURL # "") =>
    ((last.site.present /\ ~last.err) <=> last.fetched)

\* C3 as amended: such a Create fails with an error and no Site when the
\* fetch fails; when the fetch succeeds it returns success exactly when the
\* write of the staging file and the scaffold command succeed as well.
C3_SuccessNeedsFetch ==
  (CreatedWithMissingTheme /\ last.input.ThemeURL # "") =>
    /\ last.fetchRun
    /\ ~last.fetched => (last.err /\ ~last.site.present)
    /\ last.fetched =>
         ((last.site.present /\ ~last.err) <=> (last.written /\ last.scaffolded))

C3_Witness ==
  /\ CreatedWithMissingTheme
  /\ last.input.ThemeURL # ""
  /\ last.fetched
  /\ last.site.present

\* C4: once a Create has fetched a theme, every later Create naming it (the
\* directory not removed out-of-band meanwhile) finds it through
\* ThemeStore.Find and runs no fetch.
C4_NoSecondFetch ==
  [][\A t \in ThemeNames :
       (cloned[t] # "" /\ IsCall("Create") /\ last'.input.Theme = t) =>
         /\ last'.found
         /\ ~last'.fetchRun
         /\ \A k \in 1..Len(last'.calls) : last'.calls[k].tool # "git"]_vars

\* A Create for another ID found the theme an earlier Create had fetched.
C4_Witness ==
  /\ last.op = "Create"
  /\ cloned[last.input.Theme] \notin {"", last.id}
  /\ last.found
  /\ ~last.fetchRun

\* C5: ThemeStore.Find(t) returns present exactly when a directory named t
\* exists under the theme root, whatever the Themes mapping holds.
C5_ThemeFindIsDirectory ==
  /\ last.op = "ThemeFind" => (last.present <=> themeFS[last.name] = "dir")
  /\ last.op = "Create" =>
       (themeFS[last.input.Theme] = "dir" <=> (last.found \/ last.fetched))
  /\ \A t \in ThemeNames : ThemeStoreFind(t) <=> (themeRoot /\ themeFS[t] = "dir")

\* Find returned a theme the mapping does not hold.
C5_Witness ==
  /\ last.op = "ThemeFind"
  /\ last.present
  /\ last.name \notin Themes

\* C6: SiteStore.Find returns no error; it returns absent when the site
\* directory does not exist or its config file is missing or undecodable;
\* and it leaves the filesystem of both stores and both mappings unchanged.
C6_FindOnlyAbsent ==
  [][IsCall("Find") =>
       /\ ~last'.err
       /\ (~siteDir[last'.id] \/ siteCfg[last'.id].kind # "toml")
            => ~last'.site.present
       /\ UNCHANGED stores]_vars

\* Find returned absent for a site whose config file cannot be decoded.
C6_Witness ==
  /\ last.op = "Find"
  /\ siteDir[last.id]
  /\ siteCfg[last.id].kind = "garbage"
  /\ ~last.site.present

\* C7: the config of every site Find returns has its content, layout and
\* publish directories under SitePath/id, its themes directory equal to the
\* theme-store root and its site path equal to SitePath/id, whatever the
\* file holds.
C7_DerivedRecomputed ==
  (last.op = "Find" /\ last.site.present) =>
    LET c == last.site.Config
        root == Join(SitePath, last.id)
    IN  /\ c.SitePath = root
        /\ c.ThemesDir = StorePath
        /\ IsUnder(root, c.ContentDir)
        /\ IsUnder(root, c.LayoutDir)
        /\ IsUnder(root, c.PublishDir)

\* C8: after a Create has returned, either the site is fully usable (its
\* directory and config file exist and Find returns it) or none of its
\* artifacts exist (no site directory, no staging file).
C8_AllOrNothing ==
  last.op = "Create" =>
    \/ siteDir[last.id] /\ siteCfg[last.id].kind = "toml" /\ FindResult(last.id).present
    \/ ~siteDir[last.id] /\ staging[last.id] = NoFile

\* C9: Create returns a Site only when the relocation succeeded: on success
\* the config file is at SitePath/id/config.toml and the staging file is
\* gone; a failed relocation fails the Create.
C9_SiteOnlyAfterRelocation ==
  /\ (last.op = "Create" /\ last.site.present) =>
       /\ last.renamed
       /\ siteDir[last.id]
       /\ siteCfg[last.id].kind = "toml"
       /\ staging[last.id] = NoFile
  /\ (last.op = "Create" /\ last.scaffolded /\ ~last.renamed) =>
       (last.err /\ ~last.site.present)

\* C10: Build on a handle obtained from Find(id) runs the build engine
\* exactly once, in SitePath/id and without arguments, returns an error
\* exactly when the engine fails, and changes nothing in the stores.
C10_BuildRunsEngineInSite ==
  [][(IsCall("Build") /\ handle.from = "Find") =>
       /\ last'.calls = <<[tool |-> "hugo", args |-> <<>>,
                           dir |-> Join(SitePath, handle.id)]>>
       /\ last'.err <=> ~last'.engineOk
       /\ UNCHANGED stores
       /\ UNCHANGED handle]_vars

\* A Build on a found site whose engine run failed.
C10_Witness ==
  /\ last.op = "Build"
  /\ last.from = "Find"
  /\ last.err
  /\ Len(last.calls) = 1

\* The steps of the last Create that failed: theme resolution (no theme and
\* no ThemeURL, or a failed fetch), persistence, scaffold, relocation.
ResolutionFailed == ~last.found /\ ~last.fetched

PersistenceFailed == (last.found \/ last.fetched) /\ ~last.written

ScaffoldFailed == last.written /\ ~last.scaffolded

RelocationFailed == last.scaffolded /\ ~last.renamed

\* C11: Create runs theme resolution, layout, persistence, scaffold and
\* relocation in this order; a failing step makes Create return that step's
\* non-nil error and no Site, no later step is performed, and what earlier
\* steps did is not undone.
C11_StepFailureAborts ==
  last.op = "Create" =>
    /\ (ResolutionFailed \/ PersistenceFailed \/ ScaffoldFailed \/ RelocationFailed)
         => (last.err /\ ~last.site.present)
    /\ ResolutionFailed => (~last.written /\ Len(last.calls) = IF last.fetchRun THEN 1 ELSE 0)
    /\ PersistenceFailed => (~last.scaffolded /\ \A k \in 1..Len(last.calls) : last.calls[k].tool # "hugo")
    /\ ScaffoldFailed => ~last.renamed
    /\ last.fetched => themeFS[last.input.Theme] = "dir"
    /\ (last.written /\ ~last.renamed) => staging[last.id].kind = "toml"

\* The scaffold commands of the last operation.
ScaffoldCalls == {k \in 1..Len(last.calls) : last.calls[k].tool = "hugo"}

\* C12: when Create runs the scaffold command, the populated config is in
\* the staging file SitePath/<id>.toml, the command is given that path and
\* the ID, and its working directory is the site-store root.
C12_ScaffoldInSiteRoot ==
  last.op = "Create" =>
    \A k \in ScaffoldCalls :
      /\ last.written
      /\ last.calls[k].args = <<"new", "--config", ConfigPath(last.id), last.id>>
      /\ last.calls[k].dir = SitePath

\* The config file the last Create left: relocated, or still staged.
PersistedFile == IF last.renamed THEN siteCfg[last.id] ELSE staging[last.id]

\* The directory fields Create is to compute for an ID.
HasComputedDirs(id, themesDir, contentDir, layoutDir, publishDir) ==
  /\ themesDir = StorePath
  /\ contentDir = <<"tmp", "sites", id, "content">>
  /\ layoutDir = <<"tmp", "sites", id, "layout">>
  /\ publishDir = <<"tmp", "sites", id, "public">>

\* C13: a Create that reaches the persistence step persists, and returns on
\* success, a config whose directories are SitePath/ID/content, /layout and
\* /public, whose themes directory is the theme root and whose site path is
\* SitePath/ID, whatever the caller put in these fields.
C13_DerivedFieldsOverwritten ==
  (last.op = "Create" /\ last.written) =>
    /\ PersistedFile.kind = "toml"
    /\ LET d == PersistedFile.doc
       IN  HasComputedDirs(last.id, d.themesDir, d.contentDir, d.layoutDir, d.publishDir)
    /\ last.site.present =>
         LET c == last.site.Config
         IN  /\ c.SitePath = <<"tmp", "sites", last.id>>
             /\ HasComputedDirs(last.id, c.ThemesDir, c.ContentDir, c.LayoutDir, c.PublishDir)

\* A Create persisted the config of a caller that had set the fields itself.
C13_Witness ==
  /\ last.op = "Create"
  /\ last.written
  /\ last.input.ContentDir = ForeignDir
  /\ last.site.present

C15_ThemesAreDirectories ==
  last.op = "NewThemeStore" =>
    /\ themeRoot
    /\ Themes = {t \in ThemeNames : themeFS[t] = "dir"}

\* C18: a Create whose ID names an existing site (directory and config
\* file) leaves that site's config file as it was.
C18_ExistingSiteKept ==
  [][(/\ IsCall("Create")
      /\ siteDir[last'.id]
      /\ siteCfg[last'.id].kind = "toml") =>
        siteCfg'[last'.id] = siteCfg[last'.id]]_vars

\* The keys of a persisted config.
PersistedKeys ==
  {"themesDir", "contentDir", "layoutDir", "publishDir",
   "baseURL", "languageCode", "title", "theme"}

\* C20: a persisted config holds exactly the eight keys, and every Site
\* Find(id) returns has SitePath = SitePath/id and empty ID and ThemeURL.
C20_IdentityNotPersisted ==
  /\ \A i \in IDs :
       /\ siteCfg[i].kind = "toml" => DOMAIN siteCfg[i].doc = PersistedKeys
       /\ staging[i].kind = "toml" => DOMAIN staging[i].doc = PersistedKeys
  /\ (last.op = "Find" /\ last.site.present) =>
       /\ last.site.Config.SitePath = Join(SitePath, last.id)
       /\ last.site.Config.ID = ""
       /\ last.site.Config.ThemeURL = ""

\* Find returned a site right after the Create that made it from a config
\* carrying an ID and a ThemeURL.
C20_Witness ==
  /\ FoundRightAfterCreate
  /\ last.site.present
  /\ last.after.input.ThemeURL # ""
  /\ last.site.Config.ThemeURL = ""
  /\ last.site.Config.ID = ""

\* ------------------------------------------------------------------- main

\* The ID of main's sample site.
SampleID == "myorgid"

\* What an earlier run may have left of the sample site: nothing, an empty
\* directory, or a directory with a config file (as Create wrote it, or
\* damaged).
LeftBehind ==
  {<<FALSE, NoFile>>, <<TRUE, NoFile>>, <<TRUE, BadFile>>} \cup
  { <<TRUE, TomlFile(Encode(Layout(c)))>> : c \in {k \in CallerConfigs : k.ID = SampleID} }

\* The state main starts in.
InitMain ==
  /\ pc = "boot"
  /\ workDir \in {defaultSiteStorePath, OtherWorkDir}
  /\ themeRoot \in BOOLEAN
  /\ themeFS \in [ThemeNames -> {"none", "dir", "file"}]
  /\ themeRoot = FALSE => themeFS = [t \in ThemeNames |-> "none"]
  /\ Themes = {}
  /\ siteRoot \in BOOLEAN
  /\ \E left \in LeftBehind :
       /\ siteRoot = FALSE => left = <<FALSE, NoFile>>
       /\ siteDir = [i \in IDs |-> i = SampleID /\ left[1]]
       /\ siteCfg = [i \in IDs |-> IF i = SampleID THEN left[2] ELSE NoFile]
  /\ staging = [i \in IDs |-> NoFile]
  /\ Sites = {}
  /\ handle = NoHandle
  /\ last = NoOp
  /\ cloned = [t \in ThemeNames |-> ""]
  /\ ops = 0
  /\ procs = <<>>

\* main: site := siteStore.Find(siteConfig.ID)
MainFind ==
  /\ pc = "ready"
  /\ pc' = "found"
  /\ handle' = [site |-> FindResult(SampleID), from |-> "Find", id |-> SampleID]
  /\ last' = [op |-> "Find", id |-> SampleID, site |-> FindResult(SampleID),
              err |-> FALSE, calls |-> <<>>, after |-> NoOp]
  /\ UNCHANGED <<procs, workDir, themeRoot, themeFS, Themes, siteRoot, siteDir,
                 siteCfg, staging, Sites, cloned, ops>>

\* main: site.Build(), called whatever Find returned.  On a nil *Site the
\* read of s.Config panics (nil pointer dereference) before hugo is run.
MainBuild(engineOk) ==
  /\ pc = "found"
  /\ IF handle.site.present
       THEN /\ pc' = "done"
            /\ last' = [op |-> "Build", id |-> handle.id, from |-> handle.from,
                        err |-> BuildErr(engineOk), engineOk |-> engineOk,
                        calls |-> <<BuildCall(handle.site)>>]
       ELSE /\ pc' = "panic"
            /\ last' = [op |-> "Build", id |-> handle.id, from |-> handle.from,
                        err |-> FALSE, engineOk |-> FALSE, calls |-> <<>>]
  /\ UNCHANGED <<procs, workDir, themeRoot, themeFS, Themes, siteRoot, siteDir,
                 siteCfg, staging, Sites, handle, cloned, ops>>

MainNext ==
  \/ NewThemeStore
  \/ NewSiteStore
  \/ MainFind
  \/ \E e \in BOOLEAN : MainBuild(e)

MainSpec == InitMain /\ [][MainNext]_vars

\* C19: in main's run, Build is executed only on a present site, never on
\* the nil handle Find returns for an absent site.
C19_BuildOnlyOnPresentSite ==
  /\ pc # "panic"
  /\ last.op = "Build" => handle.site.present

\* ------------------------------------------------- two concurrent Creates

\* The goroutines of a caller that runs two Creates at once on one store.
Procs == {1, 2}

\* A goroutine about to enter Create(config).
StartProc(config) ==
  [pc |-> "start", config |-> config, site |-> NilSite, err |-> FALSE,
   fetchRun |-> FALSE, fetched |-> FALSE]

\* Both stores built (NewThemeStore, NewSiteStore have run), no site yet,
\* each goroutine holding the config it will create.
InitConc ==
  /\ pc = "ready"
  /\ workDir \in {defaultSiteStorePath, OtherWorkDir}
  /\ themeRoot = TRUE
  /\ themeFS \in [ThemeNames -> {"none", "dir", "file"}]
  /\ Themes = {t \in ThemeNames : themeFS[t] # "none"}
  /\ siteRoot = TRUE
  /\ siteDir = [i \in IDs |-> FALSE]
  /\ siteCfg = [i \in IDs |-> NoFile]
  /\ staging = [i \in IDs |-> NoFile]
  /\ Sites = {}
  /\ handle = NoHandle
  /\ last = NoOp
  /\ cloned = [t \in ThemeNames |-> ""]
  /\ ops = 0
  /\ procs \in [Procs -> {StartProc(c) : c \in CallerConfigs}]

\* What a goroutine's step leaves alone: Create takes no lock and keeps no
\* record in the store.
ConcFrame ==
  UNCHANGED <<pc, workDir, themeRoot, Themes, siteRoot, Sites, handle, last,
              cloned, ops>>

\* Create, theme resolution: ThemeStore.Find, then return (nil, nil-err)
\* without a ThemeURL, or start the git clone of ThemeStore.Fetch.
CResolve(p) ==
  LET c == procs[p].config
      found == ThemeStoreFind(c.Theme)
  IN  /\ procs[p].pc = "start"
      /\ procs' = [procs EXCEPT ![p] =
           IF found THEN [@ EXCEPT !.pc = "write"]
           ELSE IF c.ThemeURL = ""
                  THEN [@ EXCEPT !.pc = "done", !.err = NoThemeURLErr]
                  ELSE [@ EXCEPT !.pc = "fetching", !.fetchRun = TRUE]]
      /\ UNCHANGED <<themeFS, siteDir, siteCfg, staging>>
      /\ ConcFrame

\* Create, the git clone of ThemeStore.Fetch ends.
CFetchEnd(p, fetchOk) ==
  LET c == procs[p].config
  IN  /\ procs[p].pc = "fetching"
      /\ themeFS' = FetchedFS(c.Theme, fetchOk)
      /\ procs' = [procs EXCEPT ![p] =
           IF Resolved(FALSE, c.ThemeURL, fetchOk)
             THEN [@ EXCEPT !.pc = "write", !.fetched = fetchOk]
             ELSE [@ EXCEPT !.pc = "done", !.err = TRUE]]
      /\ UNCHANGED <<siteDir, siteCfg, staging>>
      /\ ConcFrame

\* Create, layout computation, toml.Marshal and ioutil.WriteFile of the
\* staging file.
CWrite(p, writeOk) ==
  LET c == procs[p].config
  IN  /\ procs[p].pc = "write"
      /\ staging' = IF writeOk
                      THEN [staging EXCEPT ![c.ID] = TomlFile(Encode(Layout(c)))]
                      ELSE staging
      /\ procs' = [procs EXCEPT ![p] =
           IF writeOk THEN [@ EXCEPT !.pc = "scaffold"]
                      ELSE [@ EXCEPT !.pc = "done", !.err = TRUE]]
      /\ UNCHANGED <<themeFS, siteDir, siteCfg>>
      /\ ConcFrame

\* Create, the hugo new command.
CScaffold(p, outcome) ==
  LET c == procs[p].config
      made == outcome = "scaffolded"
  IN  /\ procs[p].pc = "scaffold"
      /\ outcome \in {"scaffoldFails", "scaffolded", "scaffoldedInWorkDir"}
      /\ outcome = "scaffoldedInWorkDir" => ScaffoldDir # SitePath
      /\ siteDir' = [siteDir EXCEPT ![c.ID] = @ \/ made]
      /\ procs' = [procs EXCEPT ![p] =
           IF outcome = "scaffoldFails"
             THEN [@ EXCEPT !.pc = "done", !.err = TRUE]
             ELSE [@ EXCEPT !.pc = "rename"]]
      /\ UNCHANGED <<themeFS, siteCfg, staging>>
      /\ ConcFrame

\* Create, os.Rename of the staging file and the return of the Site.
CRename(p) ==
  LET c == procs[p].config
      renamed == RenameOk(staging[c.ID], siteDir[c.ID])
  IN  /\ procs[p].pc = "rename"
      /\ siteCfg' = [siteCfg EXCEPT ![c.ID] = IF renamed THEN staging[c.ID] ELSE @]
      /\ staging' = [staging EXCEPT ![c.ID] = IF renamed THEN NoFile ELSE @]
      /\ procs' = [procs EXCEPT ![p] =
           IF ReturnsSite(TRUE, renamed)
             THEN [@ EXCEPT !.pc = "done", !.site = SiteOf(Layout(c))]
             ELSE [@ EXCEPT !.pc = "done", !.err = TRUE]]
      /\ UNCHANGED <<themeFS, siteDir>>
      /\ ConcFrame

NextConc ==
  \E p \in Procs :
    \/ CResolve(p)
    \/ \E fetchOk \in BOOLEAN : CFetchEnd(p, fetchOk)
    \/ \E writeOk \in BOOLEAN : CWrite(p, writeOk)
    \/ \E outcome \in Outcomes : CScaffold(p, outcome)
    \/ CRename(p)

SpecConc == InitConc /\ [][NextConc]_vars

\* Both goroutines have returned from Create.
BothDone == \A p \in Procs : procs[p].pc = "done"

\* C16: two interleaved Creates for one ID never race on the staging file
\* or the site directory: at most one of them returns a Site, and the
\* config on disk is the one of the Create that succeeded.
C16_SameIDNoRace ==
  (BothDone /\ procs[1].config.ID = procs[2].config.ID) =>
    /\ ~(procs[1].site.present /\ procs[2].site.present)
    /\ \A p \in Procs :
         procs[p].site.present =>
           siteCfg[procs[p].config.ID] = TomlFile(Encode(Layout(procs[p].config)))

\* C17: two interleaved Creates for distinct IDs naming one absent theme:
\* the clone of that theme never runs twice at once, and the Create that
\* comes second finds the theme the first one fetched.
C17_FetchSerialized ==
  (/\ procs[1].config.ID # procs[2].config.ID
   /\ procs[1].config.Theme = procs[2].config.Theme) =>
    /\ ~(procs[1].pc = "fetching" /\ procs[2].pc = "fetching")
    /\ ~(procs[1].fetched /\ procs[2].fetched)

====
